---- MODULE Spec2Model ----
(***************************************************************************)
(* CapitalStore (src/subaccount_store.py): a JSON file holding the         *)
(* per-bot allocations and the transfer log, read and rewritten as a whole *)
(* by every operation.                                                     *)
(*                                                                         *)
(* Two specifications share the operators that model the handlers' bodies: *)
(*   SeqSpec  one caller, every call runs to completion before the next;   *)
(*   Spec     NumProcs concurrent callers (threads or processes), each     *)
(*            call split at the system calls of _read and _write.          *)
(*                                                                         *)
(* The "ts" field of a transfer record (datetime.now) is left out of the   *)
(* records: no operation reads it.  Its 32 characters are counted in the   *)
(* serialized length.  amount_cents is drawn as an integer, on which       *)
(* int() is the identity.                                                  *)
(***************************************************************************)
EXTENDS Integers, Sequences, FiniteSets, TLC

\* ------------------------------------------------------------------ bounds
MaxLog    == 2      \* SeqSpec: calls are made while the log is shorter than this
MaxLimit  == 2      \* get_transfers(limit), limit in 0..MaxLimit
NumProcs  == 2      \* concurrent callers of Spec

\* ------------------------------------------------------------------ inputs
Unallocated == "unallocated"
BotIds      == {"a", "b"}
AllIds      == BotIds \cup {Unallocated}
Labels      == {"L1", "L2"}
Amounts     == {0 - 1, 0, 1}       \* amount_cents: negative, zero, positive
Limits      == 0..MaxLimit
Procs       == 1..NumProcs

\* ------------------------------------------------------------------ ledger
EmptyLedger == [accounts |-> [id \in {} |-> 0], transfers |-> << >>]

Account(label, allocation) == [label |-> label, allocation |-> allocation]

TransferRecord(from_id, to_id, amount) ==
    [from |-> from_id, to |-> to_id, amount |-> amount]

\* dict.get(bot_id, {}).get("allocation", 0)
GetAllocation(accounts, bot_id) ==
    IF bot_id \in DOMAIN accounts THEN accounts[bot_id].allocation ELSE 0

\* accounts[bot_id] = value
SetAccount(accounts, bot_id, value) ==
    [id \in (DOMAIN accounts) \cup {bot_id} |->
        IF id = bot_id THEN value ELSE accounts[id]]

\* accounts.pop(bot_id, None): the registry without bot_id
PopAccount(accounts, bot_id) ==
    [id \in (DOMAIN accounts) \ {bot_id} |-> accounts[id]]

Abs(n) == IF n < 0 THEN 0 - n ELSE n

\* A handler's outcome: it raised (ok = FALSE, nothing is written) or it
\* reached its self._write(data) with this data.
Raised      == [ok |-> FALSE, data |-> EmptyLedger]
Writes(data) == [ok |-> TRUE, data |-> data]

\* allocate's body with the test diff != 0 left out
AllocateBodyAlwaysLogs(data, bot_id, label, amount_cents) ==
    LET old_amount == GetAllocation(data.accounts, bot_id)
        diff       == amount_cents - old_amount
    IN  Writes([accounts  |-> SetAccount(data.accounts, bot_id, Account(label, amount_cents)),
                transfers |-> Append(data.transfers,
                        TransferRecord(IF diff > 0 THEN Unallocated ELSE bot_id,
                                       IF diff > 0 THEN bot_id ELSE Unallocated,
                                       Abs(diff)))])

\* allocate's body with the record's amount diff in place of abs(diff)
AllocateBodySignedAmount(data, bot_id, label, amount_cents) ==
    LET old_amount == GetAllocation(data.accounts, bot_id)
        diff       == amount_cents - old_amount
    IN  Writes([accounts  |-> SetAccount(data.accounts, bot_id, Account(label, amount_cents)),
                transfers |->
                    IF diff # 0
                    THEN Append(data.transfers,
                            TransferRecord(IF diff > 0 THEN Unallocated ELSE bot_id,
                                           IF diff > 0 THEN bot_id ELSE Unallocated,
                                           diff))
                    ELSE data.transfers])

\* allocate, lines 71-81, on the data _read returned
AllocateBody(data, bot_id, label, amount_cents) ==
    LET old_amount == GetAllocation(data.accounts, bot_id)
        accounts   == SetAccount(data.accounts, bot_id, Account(label, amount_cents))
        diff       == amount_cents - old_amount
        transfers  ==
            IF diff # 0
            THEN Append(data.transfers,
                        TransferRecord(IF diff > 0 THEN Unallocated ELSE bot_id,
                                       IF diff > 0 THEN bot_id ELSE Unallocated,
                                       Abs(diff)))
            ELSE data.transfers
    IN  Writes([accounts |-> accounts, transfers |-> transfers])

\* transfer's argument checks with the test from_id == to_id left out
TransferArgsOkAmountOnly(from_id, to_id, amount_cents) == ~(amount_cents <= 0)

\* transfer, lines 92-96: the argument checks made before _read
TransferArgsOk(from_id, to_id, amount_cents) ==
    /\ ~(amount_cents <= 0)
    /\ ~(from_id = to_id)

\* transfer's body with the credit of the destination left out
TransferBodyNoCredit(data, from_id, to_id, amount_cents) ==
    LET accounts == data.accounts
        fromMissing == from_id # Unallocated /\ from_id \notin DOMAIN accounts
        debited ==
            IF from_id # Unallocated /\ ~fromMissing
            THEN [accounts EXCEPT ![from_id].allocation = @ - amount_cents]
            ELSE accounts
        toMissing == to_id # Unallocated /\ to_id \notin DOMAIN debited
    IN  IF fromMissing \/ toMissing
        THEN Raised
        ELSE Writes([accounts  |-> debited,
                     transfers |-> Append(data.transfers,
                                          TransferRecord(from_id, to_id, amount_cents))])

\* transfer, lines 99-118, on the data _read returned
TransferBody(data, from_id, to_id, amount_cents) ==
    LET accounts == data.accounts
        fromMissing == from_id # Unallocated /\ from_id \notin DOMAIN accounts
        debited ==
            IF from_id # Unallocated /\ ~fromMissing
            THEN [accounts EXCEPT ![from_id].allocation = @ - amount_cents]
            ELSE accounts
        toMissing == to_id # Unallocated /\ to_id \notin DOMAIN debited
        credited ==
            IF to_id # Unallocated /\ ~toMissing
            THEN [debited EXCEPT ![to_id].allocation = @ + amount_cents]
            ELSE debited
    IN  IF fromMissing \/ toMissing
        THEN Raised
        ELSE Writes([accounts  |-> credited,
                     transfers |-> Append(data.transfers,
                                          TransferRecord(from_id, to_id, amount_cents))])

\* remove's body with the record of the returned allocation left out
RemoveBodyNoRecord(data, bot_id) ==
    Writes([accounts |-> PopAccount(data.accounts, bot_id), transfers |-> data.transfers])

\* remove's body with the test allocation != 0 left out
RemoveBodyAlwaysLogs(data, bot_id) ==
    Writes([accounts  |-> PopAccount(data.accounts, bot_id),
            transfers |->
                IF bot_id \in DOMAIN data.accounts
                THEN Append(data.transfers,
                            TransferRecord(bot_id, Unallocated,
                                           data.accounts[bot_id].allocation))
                ELSE data.transfers])

\* remove's body with abs(allocation) as the record's amount
RemoveBodyAbsAmount(data, bot_id) ==
    Writes([accounts  |-> PopAccount(data.accounts, bot_id),
            transfers |->
                IF bot_id \in DOMAIN data.accounts /\ data.accounts[bot_id].allocation # 0
                THEN Append(data.transfers,
                            TransferRecord(bot_id, Unallocated,
                                           Abs(data.accounts[bot_id].allocation)))
                ELSE data.transfers])

\* remove, lines 129-136, on the data _read returned
RemoveBody(data, bot_id) ==
    LET present   == bot_id \in DOMAIN data.accounts
        accounts  == PopAccount(data.accounts, bot_id)
        transfers ==
            IF present /\ data.accounts[bot_id].allocation # 0
            THEN Append(data.transfers,
                        TransferRecord(bot_id, Unallocated,
                                       data.accounts[bot_id].allocation))
            ELSE data.transfers
    IN  Writes([accounts |-> accounts, transfers |-> transfers])

\* sum(a.get("allocation", 0) for a in accounts.values())
RECURSIVE SumAllocations(_, _)
SumAllocations(accounts, ids) ==
    IF ids = {} THEN 0
    ELSE LET id == CHOOSE x \in ids : TRUE
         IN  accounts[id].allocation + SumAllocations(accounts, ids \ {id})

\* get_total_allocated, on the data _read returned
GetTotalAllocated(data) == SumAllocations(data.accounts, DOMAIN data.accounts)

\* get_accounts, on the data _read returned
GetAccounts(data) == data.accounts

Reverse(s) == [i \in 1..Len(s) |-> s[Len(s) + 1 - i]]

\* Python's transfers[-limit:] for limit >= 0: -0 is 0, so limit = 0 takes
\* the slice from the start.
LastSlice(s, limit) ==
    IF limit = 0 \/ limit >= Len(s) THEN s
    ELSE SubSeq(s, Len(s) - limit + 1, Len(s))

\* get_transfers with the slice taken from the front of the log
GetTransfersOldest(data, limit) ==
    Reverse(IF limit >= Len(data.transfers) THEN data.transfers
            ELSE SubSeq(data.transfers, 1, limit))

\* get_transfers, on the data _read returned
GetTransfers(data, limit) == Reverse(LastSlice(data.transfers, limit))

\* ------------------------------------------------------- the backing file
\* len(str(n)) of an integer
RECURSIVE Digits(_)
Digits(n) ==
    IF n < 0 THEN 1 + Digits(0 - n)
    ELSE IF n < 10 THEN 1 ELSE 1 + Digits(n \div 10)

\* json.dump: the entries of the "accounts" block, each 55 characters plus
\* its id, label and digits, and 2 for its separator
RECURSIVE AccountsLen(_, _)
AccountsLen(acc, ids) ==
    IF ids = {} THEN 0
    ELSE LET id == CHOOSE x \in ids : TRUE
         IN  57 + Len(id) + Len(acc[id].label) + Digits(acc[id].allocation)
             + AccountsLen(acc, ids \ {id})

\* json.dump: the records of the "transfers" block, each 110 characters (its
\* 32-character ts included) plus its ids and digits, and 2 for its separator
RECURSIVE RecordsLen(_)
RecordsLen(log) ==
    IF log = << >> THEN 0
    ELSE 112 + Len(Head(log).from) + Len(Head(log).to) + Digits(Head(log).amount)
         + RecordsLen(Tail(log))

\* len(json.dumps(data, indent=2)): 39 characters for the empty ledger, and
\* 2 more for the brackets of each non-empty block
JsonLen(data) ==
    39 + (IF DOMAIN data.accounts = {} THEN 0
          ELSE 2 + AccountsLen(data.accounts, DOMAIN data.accounts))
       + (IF data.transfers = << >> THEN 0 ELSE 2 + RecordsLen(data.transfers))

\* The file's bytes: a complete JSON document ("json"), nothing ("empty"),
\* or a complete document followed by the tail of a longer one ("garbage").
FileJson(data) == [kind |-> "json", data |-> data, len |-> JsonLen(data)]
FileEmpty      == [kind |-> "empty", data |-> EmptyLedger, len |-> 0]
FileGarbage(n) == [kind |-> "garbage", data |-> EmptyLedger, len |-> n]

\* _read, lines 40-42: json.load(f)
JsonDecodeError(f) == f.kind # "json"

\* _read, lines 40-48: the data _read returns
ReadData(f) == IF JsonDecodeError(f) THEN EmptyLedger ELSE f.data

\* _write, line 51: open(path, "w") truncates the file
OpenTruncate(f) == FileEmpty

\* _write, line 51 (leaving the with block): close() flushes the buffered
\* document at offset 0 of this descriptor, over whatever the file holds
\* by then.  (The document is shorter than the 8192-byte buffer, so
\* json.dump itself writes nothing to the file.)
CloseFlush(f, data) ==
    IF f.len <= JsonLen(data) THEN FileJson(data) ELSE FileGarbage(f.len)

\* _write, lines 51-56, run with no other caller in between
WriteFile(f, data) == CloseFlush(OpenTruncate(f), data)

\* ------------------------------------------------------------------- calls
\* x: bot_id (allocate, remove) or from_id (transfer); y: to_id;
\* n: amount_cents (allocate, transfer) or limit (get_transfers)
Call(op, x, y, label, n) == [op |-> op, x |-> x, y |-> y, label |-> label, n |-> n]

NoCall == Call("none", "", "", "", 0)

AllocateCalls == {Call("allocate", b, "", l, n) : b \in AllIds, l \in Labels, n \in Amounts}
TransferCalls == {Call("transfer", f, t, "", n) : f \in AllIds, t \in AllIds, n \in Amounts}
RemoveCalls   == {Call("remove", b, "", "", 0) : b \in AllIds}
ReadCalls     == {Call("get_accounts", "", "", "", 0), Call("get_total_allocated", "", "", "", 0)}
                     \cup {Call("get_transfers", "", "", "", n) : n \in Limits}
MutatingCalls == AllocateCalls \cup TransferCalls \cup RemoveCalls

IsMutating(c) == c.op \in {"allocate", "transfer", "remove"}

\* The handler's body on the data _read returned
Body(c, data) ==
    CASE c.op = "allocate" -> AllocateBody(data, c.x, c.label, c.n)
      [] c.op = "transfer" -> TransferBody(data, c.x, c.y, c.n)
      [] c.op = "remove"   -> RemoveBody(data, c.x)
      [] OTHER             -> Raised

\* ------------------------------------------------------------------- state
VARIABLES
    file,       \* the bytes of data/capital.json
    last,       \* SeqSpec: the last call made, the ledger it read, whether it
                \* returned, and the value a get_* call returned
    pc,         \* Spec: each caller's position in its call
    call,       \* Spec: each caller's call
    data,       \* Spec: each caller's local `data`
    lock,       \* Spec: the flock each caller's descriptor holds
    decodeErr,  \* Spec: whether the caller's _read took the JSONDecodeError branch
    start,      \* Spec: the ledger the callers started from
    stood       \* Spec: the ledgers the file has held as complete documents

vars == <<file, last, pc, call, data, lock, decodeErr, start, stood>>
procVars == <<pc, call, data, lock, decodeErr, start, stood>>

\* A call that returns None
None == "None"

NoLast == [call |-> NoCall, pre |-> EmptyLedger, ok |-> TRUE, ret |-> None]

ProcInit ==
    /\ pc = [p \in Procs |-> "idle"]
    /\ call = [p \in Procs |-> NoCall]
    /\ data = [p \in Procs |-> EmptyLedger]
    /\ lock = [p \in Procs |-> "none"]
    /\ decodeErr = [p \in Procs |-> FALSE]

\* ------------------------------------------------ SeqSpec: one call at a time
\* __init__, lines 33-34: no file yet, so the empty ledger is written
SeqInit ==
    /\ file = WriteFile(FileEmpty, EmptyLedger)
    /\ last = NoLast
    /\ start = EmptyLedger
    /\ stood = {EmptyLedger}
    /\ ProcInit

\* A whole mutating handler run alone: _read, the body, and _write unless
\* it raised
SeqCall(c) ==
    LET pre == ReadData(file)
        out == IF c.op = "transfer" /\ ~TransferArgsOk(c.x, c.y, c.n)
               THEN Raised ELSE Body(c, pre)
    IN  [file |-> IF out.ok THEN WriteFile(file, out.data) ELSE file,
         last |-> [call |-> c, pre |-> pre, ok |-> out.ok, ret |-> None]]

\* The bound of SeqSpec: calls are made while the log is shorter than MaxLog
LogRoom == Len(ReadData(file).transfers) < MaxLog

\* allocate, lines 62-82
SeqAllocate ==
    \E c \in AllocateCalls :
        LET out == SeqCall(c)
        IN  /\ LogRoom
            /\ file' = out.file
            /\ last' = out.last
            /\ UNCHANGED procVars

\* transfer, lines 84-119
SeqTransfer ==
    \E c \in TransferCalls :
        LET out == SeqCall(c)
        IN  /\ LogRoom
            /\ file' = out.file
            /\ last' = out.last
            /\ UNCHANGED procVars

\* remove, lines 126-137
SeqRemove ==
    \E c \in RemoveCalls :
        LET out == SeqCall(c)
        IN  /\ LogRoom
            /\ file' = out.file
            /\ last' = out.last
            /\ UNCHANGED procVars

\* What a get_* call returns on the data _read returned
Returns(c, d) ==
    CASE c.op = "get_accounts"        -> GetAccounts(d)
      [] c.op = "get_transfers"       -> GetTransfers(d, c.n)
      [] c.op = "get_total_allocated" -> GetTotalAllocated(d)
      [] OTHER                        -> None

\* get_accounts, get_transfers, get_total_allocated: _read only
SeqRead ==
    \E c \in ReadCalls :
        /\ last' = [call |-> c, pre |-> ReadData(file), ok |-> TRUE,
                    ret |-> Returns(c, ReadData(file))]
        /\ UNCHANGED <<file, procVars>>

SeqNext == SeqAllocate \/ SeqTransfer \/ SeqRemove \/ SeqRead

SeqSpec == SeqInit /\ [][SeqNext]_vars

\* ------------------------------------------------ Spec: concurrent callers
\* Each caller makes one call.  Its steps are the places where another
\* caller's system call can fall in between: open, flock, the read or the
\* flush, unlock.
\*   idle -> rd_flock -> rd_load -> rd_unlock -> (done | body)
\*   body -> (raised | wr_open) -> wr_flock -> wr_dump -> wr_close -> done

\* The ledger after allocate("a", "L1", NumProcs); allocate("b", "L1", 0)
SeededLedger ==
    AllocateBody(AllocateBody(EmptyLedger, "a", "L1", NumProcs).data, "b", "L1", 0).data

\* The ledgers the callers start from: the one __init__ wrote, and one that
\* earlier calls left behind
StartLedgers == {EmptyLedger, SeededLedger}

Init ==
    /\ \E d \in StartLedgers :
          /\ file = WriteFile(FileEmpty, d)
          /\ start = d
          /\ stood = {d}
    /\ last = NoLast
    /\ ProcInit

\* The call is made.  transfer checks its arguments first (lines 92-96) and
\* raises without reading; every other call enters _read and opens the file
\* (line 37).
Invoke(p) ==
    /\ pc[p] = "idle"
    /\ \E c \in MutatingCalls \cup ReadCalls :
          /\ call' = [call EXCEPT ![p] = c]
          /\ pc' = [pc EXCEPT ![p] =
                      IF c.op = "transfer" /\ ~TransferArgsOk(c.x, c.y, c.n)
                      THEN "raised" ELSE "rd_flock"]
    /\ UNCHANGED <<file, last, data, lock, decodeErr, start, stood>>

\* flock may grant LOCK_SH while no other descriptor holds LOCK_EX
CanLockShared(p) == \A q \in Procs \ {p} : lock[q] # "EX"

\* flock may grant LOCK_EX while no other descriptor holds any lock
CanLockExclusive(p) == \A q \in Procs \ {p} : lock[q] = "none"

\* _read's finally clause with the LOCK_UN of line 44 left out
ReadUnlockKeepsLock(p) ==
    /\ pc[p] = "rd_unlock"
    /\ pc' = [pc EXCEPT ![p] = IF IsMutating(call[p]) THEN "body" ELSE "done"]
    /\ UNCHANGED <<file, last, call, data, lock, decodeErr, start, stood>>

\* _read, line 38: fcntl.flock(f, LOCK_SH)
ReadFlock(p) ==
    /\ pc[p] = "rd_flock"
    /\ CanLockShared(p)
    /\ lock' = [lock EXCEPT ![p] = "SH"]
    /\ pc' = [pc EXCEPT ![p] = "rd_load"]
    /\ UNCHANGED <<file, last, call, data, decodeErr, start, stood>>

\* _read, lines 39-42: json.load(f), the empty ledger on JSONDecodeError
ReadLoad(p) ==
    /\ pc[p] = "rd_load"
    /\ data' = [data EXCEPT ![p] = ReadData(file)]
    /\ decodeErr' = [decodeErr EXCEPT ![p] = JsonDecodeError(file)]
    /\ pc' = [pc EXCEPT ![p] = "rd_unlock"]
    /\ UNCHANGED <<file, last, call, lock, start, stood>>

\* _read, lines 43-48: LOCK_UN, close, return data.  A get_* call returns
\* what it computes from data; a mutating call goes on to its body.
ReadUnlock(p) ==
    /\ pc[p] = "rd_unlock"
    /\ lock' = [lock EXCEPT ![p] = "none"]
    /\ pc' = [pc EXCEPT ![p] = IF IsMutating(call[p]) THEN "body" ELSE "done"]
    /\ UNCHANGED <<file, last, call, data, decodeErr, start, stood>>

\* The handler's body on its local data, up to its call of self._write(data)
\* or to the ValueError it raises
RunBody(p) ==
    /\ pc[p] = "body"
    /\ LET out == Body(call[p], data[p])
       IN  /\ data' = [data EXCEPT ![p] = IF out.ok THEN out.data ELSE @]
           /\ pc' = [pc EXCEPT ![p] = IF out.ok THEN "wr_open" ELSE "raised"]
    /\ UNCHANGED <<file, last, call, lock, decodeErr, start, stood>>

\* allocate, lines 71-81
Allocate(p) ==
    /\ call[p].op = "allocate"
    /\ RunBody(p)

\* transfer, lines 99-118
Transfer(p) ==
    /\ call[p].op = "transfer"
    /\ RunBody(p)

\* remove, lines 129-136
Remove(p) ==
    /\ call[p].op = "remove"
    /\ RunBody(p)

\* _write, line 51: open(self.path, "w"), which truncates before any lock
WriteOpen(p) ==
    /\ pc[p] = "wr_open"
    /\ file' = OpenTruncate(file)
    /\ pc' = [pc EXCEPT ![p] = "wr_flock"]
    /\ UNCHANGED <<last, call, data, lock, decodeErr, start, stood>>

\* _write, line 52: fcntl.flock(f, LOCK_EX)
WriteFlock(p) ==
    /\ pc[p] = "wr_flock"
    /\ CanLockExclusive(p)
    /\ lock' = [lock EXCEPT ![p] = "EX"]
    /\ pc' = [pc EXCEPT ![p] = "wr_dump"]
    /\ UNCHANGED <<file, last, call, data, decodeErr, start, stood>>

\* _write, lines 53-56: json.dump fills the descriptor's buffer, then LOCK_UN
WriteDumpUnlock(p) ==
    /\ pc[p] = "wr_dump"
    /\ lock' = [lock EXCEPT ![p] = "none"]
    /\ pc' = [pc EXCEPT ![p] = "wr_close"]
    /\ UNCHANGED <<file, last, call, data, decodeErr, start, stood>>

\* _write, leaving the with block of line 51: close() flushes the buffer
WriteClose(p) ==
    /\ pc[p] = "wr_close"
    /\ file' = CloseFlush(file, data[p])
    /\ stood' = IF JsonDecodeError(file') THEN stood ELSE stood \cup {file'.data}
    /\ pc' = [pc EXCEPT ![p] = "done"]
    /\ UNCHANGED <<last, call, data, lock, decodeErr, start>>

Next ==
    \E p \in Procs :
        \/ Invoke(p)
        \/ ReadFlock(p)
        \/ ReadLoad(p)
        \/ ReadUnlock(p)
        \/ Allocate(p)
        \/ Transfer(p)
        \/ Remove(p)
        \/ WriteOpen(p)
        \/ WriteFlock(p)
        \/ WriteDumpUnlock(p)
        \/ WriteClose(p)

Spec == Init /\ [][Next]_vars

\* ------------------------------------------- FairSpec: callers keep running
\* A step of caller p's call once it is made
Step(p) ==
    \/ ReadFlock(p) \/ ReadLoad(p) \/ ReadUnlock(p)
    \/ Allocate(p) \/ Transfer(p) \/ Remove(p)
    \/ WriteOpen(p) \/ WriteFlock(p) \/ WriteDumpUnlock(p) \/ WriteClose(p)

\* Every caller is a running thread or process: a call that can take its
\* next statement takes it, and flock returns once the lock can be granted.
FairSpec == Spec /\ \A p \in Procs : WF_vars(Step(p))

\* --------------------------------- CrashSpec: a caller dies inside _write
\* The process dies between open() of line 51 and the close() that ends the
\* with block: its buffer is lost and the kernel drops its flock.
Crash(p) ==
    /\ pc[p] \in {"wr_flock", "wr_dump", "wr_close"}
    /\ pc' = [pc EXCEPT ![p] = "crashed"]
    /\ lock' = [lock EXCEPT ![p] = "none"]
    /\ UNCHANGED <<file, last, call, data, decodeErr, start, stood>>

CrashNext ==
    \/ Next
    \/ \E p \in Procs : Crash(p)

CrashSpec == Init /\ [][CrashNext]_vars

\* ------------------------------ InitSpec: constructors beside the callers
\* No data/capital.json yet
FileAbsent == [kind |-> "absent", data |-> EmptyLedger, len |-> 0]

\* __init__'s self._write({"accounts": {}, "transfers": []}), line 34
CtorCall == Call("__init__", "", "", "", 0)

\* Every process has still to construct its CapitalStore
CtorInit ==
    /\ file = FileAbsent
    /\ start = EmptyLedger
    /\ stood = {}
    /\ last = NoLast
    /\ pc = [p \in Procs |-> "new"]
    /\ call = [p \in Procs |-> NoCall]
    /\ data = [p \in Procs |-> EmptyLedger]
    /\ lock = [p \in Procs |-> "none"]
    /\ decodeErr = [p \in Procs |-> FALSE]

\* __init__, line 33: if not os.path.exists(self.path); line 34 enters _write
CtorExists(p) ==
    /\ pc[p] = "new"
    /\ IF file.kind = "absent"
       THEN /\ call' = [call EXCEPT ![p] = CtorCall]
            /\ data' = [data EXCEPT ![p] = EmptyLedger]
            /\ pc' = [pc EXCEPT ![p] = "wr_open"]
       ELSE /\ pc' = [pc EXCEPT ![p] = "idle"]
            /\ UNCHANGED <<call, data>>
    /\ UNCHANGED <<file, last, lock, decodeErr, start, stood>>

\* __init__ returns after its _write; the store is ready for a call
CtorReturn(p) ==
    /\ pc[p] = "done"
    /\ call[p] = CtorCall
    /\ pc' = [pc EXCEPT ![p] = "idle"]
    /\ call' = [call EXCEPT ![p] = NoCall]
    /\ UNCHANGED <<file, last, data, lock, decodeErr, start, stood>>

CtorNext ==
    \/ Next
    \/ \E p \in Procs : CtorExists(p)
    \/ \E p \in Procs : CtorReturn(p)

InitSpec == CtorInit /\ [][CtorNext]_vars

\* ---------------------------------------------------------------- claims
Finished(p) == pc[p] \in {"done", "raised"}

AllFinished == \A p \in Procs : pc[p] \in {"idle", "done", "raised"}

PersistedLog(f) == ReadData(f).transfers

IsPrefix(s, t) == Len(s) <= Len(t) /\ SubSeq(t, 1, Len(s)) = s

\* C1 (no lost updates): when account "a" holds NumProcs, account "b"
\* exists and NumProcs concurrent transfer("a", "b", 1) calls have all
\* completed, "a" holds 0, "b" has grown by NumProcs and the log has grown
\* by NumProcs records.
C1_NoLostUpdates ==
    ( /\ start = SeededLedger
      /\ \A p \in Procs : call[p] = Call("transfer", "a", "b", "", 1) /\ pc[p] = "done" )
    => /\ ~JsonDecodeError(file)
       /\ "a" \in DOMAIN file.data.accounts
       /\ "b" \in DOMAIN file.data.accounts
       /\ file.data.accounts["a"].allocation = 0
       /\ file.data.accounts["b"].allocation
             = start.accounts["b"].allocation + NumProcs
       /\ Len(file.data.transfers) = Len(start.transfers) + NumProcs

\* A mutating call between its read of the file and the end of its write
InFlight(p) ==
    /\ IsMutating(call[p])
    /\ pc[p] \in {"rd_unlock", "body", "wr_open", "wr_flock", "wr_dump", "wr_close"}

\* C2 (mutual exclusion of mutations): no two mutating calls are both
\* between their read of the ledger and the completion of their write.
C2_MutualExclusion ==
    \A p \in Procs : \A q \in Procs \ {p} : ~(InFlight(p) /\ InFlight(q))

\* What a call leaves behind when it runs alone on ledger d
SeqApply(c, d) ==
    IF ~IsMutating(c) \/ (c.op = "transfer" /\ ~TransferArgsOk(c.x, c.y, c.n))
    THEN d
    ELSE LET out == Body(c, d) IN IF out.ok THEN out.data ELSE d

\* The ledgers that the calls of the callers in `ps`, applied one at a time
\* in some order, leave behind from ledger d
RECURSIVE Serial(_, _)
Serial(ps, d) ==
    IF ps = {} THEN {d}
    ELSE UNION {Serial(ps \ {p}, SeqApply(call[p], d)) : p \in ps}

\* C3 (linearizability): once all concurrently invoked calls have completed,
\* the persisted ledger is the one some total order of those calls, applied
\* one at a time from the starting ledger, produces.
C3_Linearizable ==
    AllFinished =>
        \E d \in Serial({p \in Procs : Finished(p)}, start) : file = FileJson(d)

\* C4 (reads never see a partial state): a get_accounts / get_transfers /
\* get_total_allocated call computes its value from the starting ledger or
\* from a ledger that a completed mutation left in the file, never from an
\* empty, truncated or half-written file.
C4_ReadsSeeCompleteLedger ==
    \A p \in Procs :
        (call[p] \in ReadCalls /\ pc[p] \in {"rd_unlock", "done"}) => data[p] \in stood

\* C10 (append-only log): across every step the persisted transfer log
\* before the step is a prefix of the persisted transfer log after it.
C10_AppendOnly ==
    [][IsPrefix(PersistedLog(file), PersistedLog(file'))]_vars

\* The persisted ledger, and the registry and log in it
Ledger   == ReadData(file)
Accounts == Ledger.accounts
Log      == Ledger.transfers

\* C5 (non-negative allocations): in every persisted ledger reached by a
\* sequence of allocate, transfer and remove calls every account's
\* allocation is >= 0.
C5_NonNegative ==
    \A id \in DOMAIN Accounts : Accounts[id].allocation >= 0

\* C6 (overdraft rejection): a transfer whose from_id is an existing real
\* account holding less than the amount fails, and leaves the persisted
\* accounts and log as they were.
C6_OverdraftRejected ==
    ( /\ last.call.op = "transfer"
      /\ TransferArgsOk(last.call.x, last.call.y, last.call.n)
      /\ last.call.x # Unallocated
      /\ last.call.x \in DOMAIN last.pre.accounts
      /\ last.pre.accounts[last.call.x].allocation < last.call.n )
    => (~last.ok /\ Ledger = last.pre)

\* The change of get_total_allocated() across the last call
TotalDelta == GetTotalAllocated(Ledger) - GetTotalAllocated(last.pre)

\* A ledger with no negative allocation, no account named "unallocated" and
\* only well-formed records
Clean(d) ==
    /\ \A id \in DOMAIN d.accounts : id # Unallocated /\ d.accounts[id].allocation >= 0
    /\ \A i \in DOMAIN d.transfers :
          d.transfers[i].amount > 0 /\ d.transfers[i].from # d.transfers[i].to

\* C7 as stated (conservation): get_total_allocated() changes only across
\* an allocate call, by that call's diff; transfer and remove leave it
\* unchanged.  Stated of the calls that start from and leave a clean ledger,
\* so that a violation owes nothing to a negative allocation or to an
\* account named "unallocated".
C7_TotalChangesOnlyByAllocate ==
    (Clean(last.pre) /\ Clean(Ledger)) =>
        TotalDelta =
            IF last.call.op = "allocate"
            THEN last.call.n - GetAllocation(last.pre.accounts, last.call.x)
            ELSE 0

\* C7 as amended (conservation): get_total_allocated() changes across an
\* allocate call by that call's diff, across a successful transfer by the
\* amount credited to a real destination minus the amount debited from a
\* real source (0 between two real accounts), and across a remove by minus the
\* removed account's allocation; a failed transfer and a read leave it
\* unchanged.
C7_Conservation ==
    TotalDelta =
        CASE last.call.op = "allocate" ->
                 last.call.n - GetAllocation(last.pre.accounts, last.call.x)
          [] last.call.op = "transfer" /\ last.ok ->
                 (IF last.call.y # Unallocated THEN last.call.n ELSE 0)
                 - (IF last.call.x # Unallocated THEN last.call.n ELSE 0)
          [] last.call.op = "remove" ->
                 0 - GetAllocation(last.pre.accounts, last.call.x)
          [] OTHER -> 0

\* C7's case: a remove has deleted an account that held a non-zero
\* allocation, and the total has moved by it
C7_Witness ==
    /\ last.call.op = "remove"
    /\ GetAllocation(last.pre.accounts, last.call.x) # 0
    /\ last.call.x \notin DOMAIN Accounts
    /\ TotalDelta # 0

\* Replaying the log from an empty registry: credit `to`, debit `from`,
\* ignoring the "unallocated" endpoint
RECURSIVE Replay(_)
Replay(log) ==
    IF log = << >> THEN [id \in {} |-> 0]
    ELSE LET reg == Replay(SubSeq(log, 1, Len(log) - 1))
             r   == log[Len(log)]
             Old(id) == IF id \in DOMAIN reg THEN reg[id] ELSE 0
             touched == {r.from, r.to} \ {Unallocated}
         IN  [id \in (DOMAIN reg) \cup touched |->
                 Old(id) + (IF id = r.to THEN r.amount ELSE 0)
                         - (IF id = r.from THEN r.amount ELSE 0)]

\* C8 as stated (log replay): replaying the log yields exactly the current
\* registry: the same set of account ids, each with the same allocation.
\* Stated of the clean ledgers, so that a violation owes nothing to a
\* negative allocation or to an account named "unallocated".
C8_ReplayReproducesRegistry ==
    Clean(Ledger) =>
        Replay(Log) = [id \in DOMAIN Accounts |-> Accounts[id].allocation]

\* C8 as amended (log replay): replaying the log yields, for every account
\* of the registry whose id is not "unallocated", its allocation, and 0 for
\* every other id the replay holds.
C8_ReplayExplainsAllocations ==
    LET reg == Replay(Log)
    IN  /\ \A id \in (DOMAIN Accounts) \ {Unallocated} :
              Accounts[id].allocation = (IF id \in DOMAIN reg THEN reg[id] ELSE 0)
        /\ \A id \in (DOMAIN reg) \ (DOMAIN Accounts) : reg[id] = 0

\* C8's case: an account with a non-zero allocation beside an id that the log
\* funded and remove has deleted
C8_Witness ==
    /\ \E id \in DOMAIN Accounts : id # Unallocated /\ Accounts[id].allocation # 0
    /\ \E id \in DOMAIN Replay(Log) : id \notin DOMAIN Accounts
    /\ last.call.op = "remove"

\* C9 (well-formed transfer records): every record of the log has
\* amount > 0 and from # to.
C9_WellFormedRecords ==
    \A i \in DOMAIN Log : Log[i].amount > 0 /\ Log[i].from # Log[i].to

\* C11 (no-op allocate): allocate(id, label, x) on an account that already
\* holds x leaves the transfer log exactly as it was.
C11_NoOpAllocate ==
    ( /\ last.call.op = "allocate"
      /\ last.call.x \in DOMAIN last.pre.accounts
      /\ last.pre.accounts[last.call.x].allocation = last.call.n )
    => Log = last.pre.transfers

\* C11's case: an allocate that repeats the account's allocation (with a new
\* label) on a ledger whose log is not empty
C11_Witness ==
    /\ last.call.op = "allocate"
    /\ last.call.x \in DOMAIN last.pre.accounts
    /\ last.pre.accounts[last.call.x].allocation = last.call.n
    /\ last.pre.accounts[last.call.x].label # last.call.label
    /\ last.pre.transfers # << >>

Min(a, b) == IF a <= b THEN a ELSE b

\* The last k records of a log, newest first
NewestFirst(log, k) == [i \in 1..k |-> log[Len(log) + 1 - i]]

\* C12 as stated (get_transfers): for every limit >= 0 the call returns the
\* last min(limit, len(log)) records, newest first.
C12_GetTransfers ==
    last.call.op = "get_transfers" =>
        last.ret = NewestFirst(last.pre.transfers,
                               Min(last.call.n, Len(last.pre.transfers)))

\* C13 (idempotent remove): remove of an id that is not in the registry
\* leaves accounts and log unchanged; remove of an account whose allocation
\* is 0 deletes the account and appends no record.
C13_IdempotentRemove ==
    last.call.op = "remove" =>
        /\ last.call.x \notin DOMAIN last.pre.accounts => Ledger = last.pre
        /\ ( /\ last.call.x \in DOMAIN last.pre.accounts
             /\ last.pre.accounts[last.call.x].allocation = 0 )
           => /\ last.call.x \notin DOMAIN Accounts
              /\ Log = last.pre.transfers

\* C13's case: a remove has deleted an account that held 0, on a ledger
\* whose log is not empty
C13_Witness ==
    /\ last.call.op = "remove"
    /\ last.call.x \in DOMAIN last.pre.accounts
    /\ last.pre.accounts[last.call.x].allocation = 0
    /\ last.call.x \notin DOMAIN Accounts
    /\ Log # << >>

\* transfer's rejected cases: a non-positive amount, from_id = to_id, or a
\* from_id or to_id other than "unallocated" that is not in the registry
TransferRejected(c, d) ==
    \/ c.n <= 0
    \/ c.x = c.y
    \/ (c.x # Unallocated /\ c.x \notin DOMAIN d.accounts)
    \/ (c.y # Unallocated /\ c.y \notin DOMAIN d.accounts)

\* C14 (rejected transfers change nothing): in each rejected case the call
\* fails and the persisted accounts and log are what they were before it.
C14_RejectedTransfers ==
    (last.call.op = "transfer" /\ TransferRejected(last.call, last.pre))
    => (~last.ok /\ Ledger = last.pre)

\* C14's case: a transfer has failed on a missing to_id after its existing
\* from_id was debited in memory
C14_Witness ==
    /\ last.call.op = "transfer"
    /\ last.call.n > 0
    /\ last.call.x # Unallocated /\ last.call.x \in DOMAIN last.pre.accounts
    /\ last.call.y # Unallocated /\ last.call.y \notin DOMAIN last.pre.accounts
    /\ ~last.ok

\* C17 (allocate): the account's allocation becomes the amount, the account
\* being created if absent; when diff = amount - old is not 0 exactly one
\* record of amount |diff| is appended, "unallocated" -> bot_id if diff > 0
\* and bot_id -> "unallocated" if diff < 0; all other accounts are unchanged.
C17_Allocate ==
    last.call.op = "allocate" =>
        LET bot_id == last.call.x
            old    == GetAllocation(last.pre.accounts, bot_id)
            diff   == last.call.n - old
        IN  /\ DOMAIN Accounts = (DOMAIN last.pre.accounts) \cup {bot_id}
            /\ Accounts[bot_id].allocation = last.call.n
            /\ \A id \in (DOMAIN last.pre.accounts) \ {bot_id} :
                  Accounts[id] = last.pre.accounts[id]
            /\ diff = 0 => Log = last.pre.transfers
            /\ diff > 0 => Log = Append(last.pre.transfers,
                                        TransferRecord(Unallocated, bot_id, diff))
            /\ diff < 0 => Log = Append(last.pre.transfers,
                                        TransferRecord(bot_id, Unallocated, 0 - diff))

\* C17's case: an allocate has lowered an existing account's allocation
\* beside another account
C17_Witness ==
    /\ last.call.op = "allocate"
    /\ last.call.x \in DOMAIN last.pre.accounts
    /\ last.call.n < last.pre.accounts[last.call.x].allocation
    /\ \E id \in DOMAIN last.pre.accounts : id # last.call.x
    /\ Len(Log) = Len(last.pre.transfers) + 1

\* C18 (remove): remove of an account with a non-zero allocation a deletes
\* it, appends exactly one record {from: bot_id, to: "unallocated",
\* amount: a} and leaves every other account's label and allocation
\* unchanged.
C18_Remove ==
    ( /\ last.call.op = "remove"
      /\ last.call.x \in DOMAIN last.pre.accounts
      /\ last.pre.accounts[last.call.x].allocation # 0 )
    => /\ DOMAIN Accounts = (DOMAIN last.pre.accounts) \ {last.call.x}
       /\ \A id \in DOMAIN Accounts : Accounts[id] = last.pre.accounts[id]
       /\ Log = Append(last.pre.transfers,
                       TransferRecord(last.call.x, Unallocated,
                                      last.pre.accounts[last.call.x].allocation))

\* C18's case: a remove has deleted an account with a non-zero allocation
\* beside another account
C18_Witness ==
    /\ last.call.op = "remove"
    /\ last.call.x \in DOMAIN last.pre.accounts
    /\ last.pre.accounts[last.call.x].allocation # 0
    /\ DOMAIN Accounts # {}
    /\ last.call.x \notin DOMAIN Accounts

\* C15 as stated (corrupt state is surfaced): a call whose _read found a file
\* that does not parse reports an error; it neither returns normally nor
\* goes on to _write a ledger built without the recorded history.
C15_CorruptStateSurfaced ==
    \A p \in Procs :
        decodeErr[p] => pc[p] \in {"rd_unlock", "raised"}

\* C16 as stated (no partial commits): when the only call made so far died
\* inside its _write, the file still holds the complete ledger from before
\* the call.
C16_NoPartialCommits ==
    (\E p \in Procs : /\ pc[p] = "crashed"
                      /\ \A q \in Procs \ {p} : pc[q] = "idle")
    => file = FileJson(start)

\* C19 as stated (initialization never destroys data): no step of a
\* constructor's initial _write replaces a ledger that holds accounts or
\* transfers.
C19_InitNeverDestroysData ==
    [][\A p \in Procs :
          (call[p] = CtorCall /\ pc[p] \in {"wr_open", "wr_close"} /\ pc'[p] # pc[p])
          => (ReadData(file) = EmptyLedger \/ file' = file)]_vars

Unfinished(p) == pc[p] \notin {"idle", "done", "raised"}

\* A call waiting in flock holds no lock of its own
HoldsNoneWhileAcquiring ==
    \A p \in Procs : pc[p] \in {"rd_flock", "wr_flock"} => lock[p] = "none"

\* While a call is unfinished some call can take a step
NoStuckState ==
    (\E p \in Procs : Unfinished(p)) => (\E q \in Procs : ENABLED Step(q))

\* C20 (deadlock freedom): a call holds at most one flock at a time and has
\* released it before it asks for the next; no reachable state has an
\* unfinished call while no call can step; under fair scheduling every call
\* that was made completes.
C20_DeadlockFreedom ==
    /\ [](HoldsNoneWhileAcquiring /\ NoStuckState)
    /\ \A p \in Procs : Unfinished(p) ~> Finished(p)

\* C20's case: a call waits in _write's flock while another call holds a lock
C20_Witness ==
    \E p \in Procs : \E q \in Procs \ {p} :
        /\ pc[p] = "wr_flock"
        /\ lock[q] # "none"
        /\ ~CanLockExclusive(p)

====
